---- MODULE Spec2Model ----
(* A model of src/src/tasklets.ts: the Tasklet settlement engine, the        *)
(* producer adapter (contracted), the chain combinators (or, and, then) and  *)
(* the fan-in combinator (gather), run on Node's single thread: a block of   *)
(* synchronous code, then the process.nextTick queue drained in FIFO order,  *)
(* then timers and other callbacks.                                          *)
EXTENDS Integers, Sequences, FiniteSets, TLC

VARIABLES units, queue, log, diag, gathers, running, used

vars == <<units, queue, log, diag, gathers, running, used>>

(* ------------------------------------------------------------------------ *)
(* Bounds of the model                                                      *)
(* ------------------------------------------------------------------------ *)
(* MaxOps: the operations of producers (settlements, contracts attached to  *)
(* a tasklet that has one); MaxSubs: the subscribers the user registers;    *)
(* MaxCalls: the calls of or / and; MaxKeys: the fields of gather.          *)
MaxOps == 2
MaxSubs == 1
MaxCalls == 1
MaxKeys == 2
(* MaxHandlers: the subscribers of the programs that are about their order *)
MaxHandlers == 2

(* ------------------------------------------------------------------------ *)
(* enum Outcome                                                             *)
(* ------------------------------------------------------------------------ *)
Uninitialized == 0
Pending == 1
Error == 2
Result == 3

(* Tasklet.defaultOptions.timeout *)
DefaultTimeout == 8

(* ------------------------------------------------------------------------ *)
(* Values: results are <<"v", n>>, errors are <<"err", name, ...>>          *)
(* ------------------------------------------------------------------------ *)
V(n) == <<"v", n>>
E(n) == <<"err", "E", n>>
Undefined == <<"undefined">>
IsError(x) == x[1] = "err"

TimeoutError == <<"err", "TimeoutError">>
WorkError(problem) == <<"err", "WorkError", problem>>
CancellationError(problem) == <<"err", "CancellationError", problem>>
RejectionError(error, problem) == <<"err", "RejectionError", error, problem>>
FulfillmentError(result, problem) == <<"err", "FulfillmentError", result, problem>>
AlreadyContracted == <<"err", "This tasklet already has a contract defined">>
NoOnfulfilled == <<"err", "An onfulfilled handler must be supplied.">>
(* what user code throws when it throws *)
Boom == <<"err", "boom">>


(* ------------------------------------------------------------------------ *)
(* The heap while one synchronous block runs                                *)
(* ------------------------------------------------------------------------ *)
(* ret is what the last call of errors / results / or / and / then returned *)
Cur == [units |-> units, queue |-> queue, log |-> log, diag |-> diag,
        gathers |-> gathers, ret |-> 0]

Commit(s) ==
    /\ units' = s.units
    /\ queue' = s.queue
    /\ log' = s.log
    /\ diag' = s.diag
    /\ gathers' = s.gathers

(* new Tasklet(options): the fields of the constructor, then the closure    *)
(* variables of contracted (work, isPromise, producers) and of or/and       *)
(* (resolved), and counters of calls made: of cancel() (cancelCalls), of    *)
(* the continuation of or / and (contCalls), of setTimeout (timers).        *)
NewTasklet(timeout) ==
    [outcome |-> Uninitialized, timeout |-> timeout, timer |-> FALSE,
     resolvedErrors |-> <<>>, resolvedResults |-> <<>>,
     errorHandlers |-> <<>>, resultHandlers |-> <<>>,
     work |-> "none", isPromise |-> FALSE, producers |-> {},
     resolved |-> FALSE, cancelCalls |-> 0, contCalls |-> 0, timers |-> 0]

Construct(s, timeout) == [s EXCEPT !.units = Append(@, NewTasklet(timeout))]

Fresh(s) == Len(s.units) + 1

(* console.warn / console.error / console.trace: diag counts the messages  *)
(* of each level and payload                                                *)
Report(s, level, payload) ==
    LET m == <<level, payload>>
    IN [s EXCEPT !.diag = IF m \in DOMAIN @ THEN [@ EXCEPT ![m] = @ + 1]
                          ELSE (m :> 1) @@ @]

(* ------------------------------------------------------------------------ *)
(* Settlement engine                                                        *)
(* ------------------------------------------------------------------------ *)
ResolutionNoLatch(s, u, outcome) ==
    [s EXCEPT !.units[u].timer = FALSE, !.units[u].outcome = outcome]

ResolutionKeepsTimer(s, u, outcome) ==
    [s EXCEPT !.units[u].outcome = IF @ <= Pending THEN outcome ELSE @]

Resolution(s, u, outcome) ==
    [s EXCEPT !.units[u].timer = FALSE,
              !.units[u].outcome = IF @ <= Pending THEN outcome ELSE @]

Rejected(s, u, error, isPromise) ==
    LET s1 == Resolution(s, u, Error)
    IN [s1 EXCEPT !.units[u].resolvedErrors = Append(@, error),
                  !.queue = Append(@, [unit |-> u, chan |-> "err",
                                       val |-> error, isPromise |-> isPromise])]

FulfilledOnce(s, u, result, isPromise) ==
    IF s.units[u].outcome > Pending THEN s
    ELSE LET s1 == Resolution(s, u, Result)
         IN [s1 EXCEPT !.units[u].resolvedResults = Append(@, result),
                       !.queue = Append(@, [unit |-> u, chan |-> "res",
                                            val |-> result,
                                            isPromise |-> isPromise])]

Fulfilled(s, u, result, isPromise) ==
    LET s1 == Resolution(s, u, Result)
    IN [s1 EXCEPT !.units[u].resolvedResults = Append(@, result),
                  !.queue = Append(@, [unit |-> u, chan |-> "res",
                                       val |-> result, isPromise |-> isPromise])]

InitialiseNoElse(s, u) ==
    LET s1 == IF s.units[u].outcome # Uninitialized
              THEN Rejected(s, u, AlreadyContracted, FALSE)
              ELSE s
    IN [s1 EXCEPT !.units[u].outcome = Pending,
                  !.units[u].timer = (s.units[u].timeout # 0),
                  !.units[u].timers = IF s.units[u].timeout # 0 THEN @ + 1 ELSE @]

Initialise(s, u) ==
    IF s.units[u].outcome # Uninitialized
    THEN Rejected(s, u, AlreadyContracted, FALSE)
    ELSE [s EXCEPT !.units[u].outcome = Pending,
                   !.units[u].timer = (s.units[u].timeout # 0),
                   !.units[u].timers = IF s.units[u].timeout # 0 THEN @ + 1 ELSE @]

(* ------------------------------------------------------------------------ *)
(* User callbacks and the observers of gather                               *)
(* ------------------------------------------------------------------------ *)
RECURSIVE Contracted(_, _, _)

IsPromiseLikeShape(obj) == obj[1] = "promise"

(* done(outcome) of a job: outcome instanceof Error ? rejected : fulfilled *)
Done(s, u, outcome) ==
    IF IsError(outcome) THEN Rejected(s, u, outcome, FALSE)
    ELSE Fulfilled(s, u, outcome, FALSE)

(* result[key] = value *)
SetKey(result, key, value) ==
    [k \in (DOMAIN result) \cup {key} |-> IF k = key THEN value ELSE result[k]]

(* The callbacks handed to then. "fn" is a user function: it records its    *)
(* call and returns undefined, returns its argument, throws, or returns a   *)
(* foreign promise. "gatherFul" and "gatherRej" are gather's observers.     *)
CallBack(s, f, val) ==
    CASE f.f = "fn" ->
           LET s1 == [s EXCEPT !.log = Append(@, [h |-> f.id, val |-> val])]
           IN [s |-> s1, threw |-> (f.ret = "throw"),
               out |-> CASE f.ret = "same" -> val
                         [] f.ret = "promise" -> <<"promise">>
                         [] OTHER -> Undefined]
      [] f.f = "gatherFul" ->
           LET g == f.g
               s1 == [s EXCEPT !.gathers[g].result = SetKey(@, f.key, val),
                               !.gathers[g].resolutions = @ + 1]
               s2 == IF s1.gathers[g].resolutions = s1.gathers[g].size
                     THEN Done(s1, g, <<"agg", g>>)
                     ELSE s1
           IN [s |-> s2, threw |-> FALSE, out |-> val]
      [] f.f = "gatherRej" ->
           [s |-> Rejected(s, f.g, val, FALSE), threw |-> FALSE, out |-> val]
      (* calling undefined throws *)
      [] f.f = "undef" -> [s |-> s, threw |-> TRUE, out |-> Undefined]

(* x * 2, which is NaN when x is no number *)
Double(x) == IF x[1] = "v" THEN V(x[2] * 2) ELSE <<"NaN">>

(* The continuations handed to or / and: what calling one with val gives.   *)
(* "double" is x => then => then(x * 2), "forward" is e => otherwise =>     *)
(* otherwise(e), "pend" returns a job that settles later, "throw" throws;   *)
(* "thenFul" and "thenRej" are the continuations then hands to and / or.    *)
Continue(cont, val) ==
    CASE cont.c = "double" ->
           [threw |-> FALSE, job |-> [j |-> "sync", val |-> Double(val)]]
      [] cont.c = "forward" ->
           [threw |-> FALSE, job |-> [j |-> "sync", val |-> val]]
      [] cont.c = "pend" ->
           [threw |-> FALSE, job |-> [j |-> "async", work |-> "none"]]
      [] cont.c = "throw" ->
           [threw |-> TRUE, job |-> [j |-> "throw"]]
      [] cont.c = "thenFul" ->
           [threw |-> FALSE,
            job |-> [j |-> "thenFul", target |-> cont.target, on |-> cont.on,
                     val |-> val]]
      [] cont.c = "thenRej" ->
           [threw |-> FALSE,
            job |-> [j |-> "thenRej", target |-> cont.target, on |-> cont.on,
                     val |-> val]]

(* ------------------------------------------------------------------------ *)
(* Subscribers                                                              *)
(* ------------------------------------------------------------------------ *)
GuardedNoLatch(s, h, type) ==
    IF type # s.units[h.parent].outcome
    THEN [s |-> s, ret |-> TRUE]
    ELSE [s |-> s, ret |-> FALSE]

GuardedAnyOutcome(s, h, type) ==
    [s |-> [s EXCEPT !.units[h.child].resolved = TRUE],
     ret |-> s.units[h.child].resolved]

(* guarded(type) of or / and; resolved is the flag of the derived tasklet   *)
Guarded(s, h, type) ==
    IF type # s.units[h.parent].outcome
    THEN [s |-> s, ret |-> TRUE]
    ELSE [s |-> [s EXCEPT !.units[h.child].resolved = TRUE],
          ret |-> s.units[h.child].resolved]

(* the error subscriber of or *)
OrErrors(s, h, error) ==
    LET g == Guarded(s, h, Error)
        s1 == [g.s EXCEPT !.units[h.child].contCalls = @ + 1]
        c == Continue(h.cont, error)
    IN IF g.ret THEN g.s
       ELSE IF c.threw
            THEN Rejected(s1, h.child, RejectionError(error, Boom), FALSE)
            ELSE Contracted(s1, h.child, c.job)

(* the result subscriber of or *)
OrResults(s, h, result) ==
    LET g == Guarded(s, h, Result)
    IN IF g.ret THEN g.s ELSE Fulfilled(g.s, h.child, result, FALSE)

(* the error subscriber of and *)
AndErrors(s, h, error) ==
    LET g == Guarded(s, h, Error)
    IN IF g.ret THEN g.s ELSE Rejected(g.s, h.child, error, FALSE)

AndResultsForwards(s, h, result) ==
    LET g == Guarded(s, h, Result)
    IN IF g.ret THEN g.s ELSE Fulfilled(g.s, h.child, result, FALSE)

(* the result subscriber of and *)
AndResults(s, h, result) ==
    LET g == Guarded(s, h, Result)
        s1 == [g.s EXCEPT !.units[h.child].contCalls = @ + 1]
        c == Continue(h.cont, result)
    IN IF g.ret THEN g.s
       ELSE IF c.threw
            THEN Rejected(s1, h.child, FulfillmentError(result, Boom), FALSE)
            ELSE Contracted(s1, h.child, c.job)

(* Calling a subscriber: the state after it, and whether it threw.          *)
(* "probe" is a user subscriber that records its call and may throw.        *)
Call(s, h, val) ==
    CASE h.k = "probe" ->
           [s |-> [s EXCEPT !.log = Append(@, [h |-> h.id, val |-> val])],
            threw |-> h.throws]
      [] h.k = "noop" -> [s |-> s, threw |-> FALSE]
      [] h.k = "orErr" -> [s |-> OrErrors(s, h, val), threw |-> FALSE]
      [] h.k = "orRes" -> [s |-> OrResults(s, h, val), threw |-> FALSE]
      [] h.k = "andErr" -> [s |-> AndErrors(s, h, val), threw |-> FALSE]
      [] h.k = "andRes" -> [s |-> AndResults(s, h, val), threw |-> FALSE]

HandleRejection(s, rejected, error) ==
    LET r == Call(s, rejected, error)
    IN IF r.threw THEN Report(r.s, "error", RejectionError(error, Boom))
       ELSE r.s

HandleFulfillment(s, fulfillment, result) ==
    LET r == Call(s, fulfillment, result)
    IN IF r.threw THEN Report(r.s, "error", FulfillmentError(result, Boom))
       ELSE r.s

(* this.resolvedErrors.forEach(error => handleRejection(rejected, error)) *)
RECURSIVE ReplayErrors(_, _, _, _)
ReplayErrors(s, rejected, history, i) ==
    IF i > Len(history) THEN s
    ELSE ReplayErrors(HandleRejection(s, rejected, history[i]), rejected,
                      history, i + 1)

RECURSIVE ReplayResults(_, _, _, _)
ReplayResults(s, fulfillment, history, i) ==
    IF i > Len(history) THEN s
    ELSE ReplayResults(HandleFulfillment(s, fulfillment, history[i]),
                       fulfillment, history, i + 1)

Errors(s, u, rejected) ==
    LET s1 == [s EXCEPT !.units[u].errorHandlers = Append(@, rejected)]
    IN [ReplayErrors(s1, rejected, s1.units[u].resolvedErrors, 1)
           EXCEPT !.ret = u]

RECURSIVE ReplayResultsBackwards(_, _, _, _)
ReplayResultsBackwards(s, fulfillment, history, i) ==
    IF i < 1 THEN s
    ELSE ReplayResultsBackwards(HandleFulfillment(s, fulfillment, history[i]),
                                fulfillment, history, i - 1)

ResultsBackwards(s, u, fulfillment) ==
    LET s1 == [s EXCEPT !.units[u].resultHandlers = Append(@, fulfillment)]
    IN [ReplayResultsBackwards(s1, fulfillment, s1.units[u].resolvedResults,
                               Len(s1.units[u].resolvedResults))
           EXCEPT !.ret = u]

Results(s, u, fulfillment) ==
    LET s1 == [s EXCEPT !.units[u].resultHandlers = Append(@, fulfillment)]
    IN [ReplayResults(s1, fulfillment, s1.units[u].resolvedResults, 1)
           EXCEPT !.ret = u]

(* this.errorHandlers.forEach(rejected => handleRejection(rejected, error)) *)
RECURSIVE NotifyErrors(_, _, _, _)
NotifyErrors(s, handlers, error, i) ==
    IF i > Len(handlers) THEN s
    ELSE NotifyErrors(HandleRejection(s, handlers[i], error), handlers,
                      error, i + 1)

RECURSIVE NotifyResultsAborts(_, _, _, _)
NotifyResultsAborts(s, handlers, result, i) ==
    IF i > Len(handlers) THEN s
    ELSE IF Call(s, handlers[i], result).threw
         THEN HandleFulfillment(s, handlers[i], result)
         ELSE NotifyResultsAborts(HandleFulfillment(s, handlers[i], result),
                                  handlers, result, i + 1)

RECURSIVE NotifyResults(_, _, _, _)
NotifyResults(s, handlers, result, i) ==
    IF i > Len(handlers) THEN s
    ELSE NotifyResults(HandleFulfillment(s, handlers[i], result), handlers,
                       result, i + 1)

RejectedTickWarnsPromises(s, n) ==
    LET handlers == s.units[n.unit].errorHandlers
    IN IF Len(handlers) > 0 THEN NotifyErrors(s, handlers, n.val, 1)
       ELSE Report(s, "warn", n.val)

(* the callback rejected hands to process.nextTick *)
RejectedTick(s, n) ==
    LET handlers == s.units[n.unit].errorHandlers
    IN IF Len(handlers) > 0 THEN NotifyErrors(s, handlers, n.val, 1)
       ELSE IF ~n.isPromise THEN Report(s, "warn", n.val)
       ELSE s

RECURSIVE NotifyResultsBackwards(_, _, _, _)
NotifyResultsBackwards(s, handlers, result, i) ==
    IF i < 1 THEN s
    ELSE NotifyResultsBackwards(HandleFulfillment(s, handlers[i], result),
                                handlers, result, i - 1)

FulfilledTickBackwards(s, n) ==
    LET handlers == s.units[n.unit].resultHandlers
    IN IF Len(handlers) > 0
       THEN NotifyResultsBackwards(s, handlers, n.val, Len(handlers))
       ELSE IF ~n.isPromise THEN Report(s, "trace", n.val)
       ELSE s

(* the callback fulfilled hands to process.nextTick *)
FulfilledTick(s, n) ==
    LET handlers == s.units[n.unit].resultHandlers
    IN IF Len(handlers) > 0 THEN NotifyResults(s, handlers, n.val, 1)
       ELSE IF ~n.isPromise THEN Report(s, "trace", n.val)
       ELSE s

(* ------------------------------------------------------------------------ *)
(* Chain combinators; the derived tasklet is Fresh(s)                       *)
(* ------------------------------------------------------------------------ *)
Or(s, p, cont, timeout) ==
    LET tasklet == Fresh(s)
        s1 == Construct(s, timeout)
        s2 == Errors(s1, p, [k |-> "orErr", parent |-> p, child |-> tasklet,
                             cont |-> cont])
        s3 == Results(s2, p, [k |-> "orRes", parent |-> p, child |-> tasklet,
                              cont |-> cont])
    IN [s3 EXCEPT !.ret = tasklet]

And(s, p, cont, timeout) ==
    LET tasklet == Fresh(s)
        s1 == Construct(s, timeout)
        s2 == Errors(s1, p, [k |-> "andErr", parent |-> p, child |-> tasklet,
                             cont |-> cont])
        s3 == Results(s2, p, [k |-> "andRes", parent |-> p, child |-> tasklet,
                              cont |-> cont])
    IN [s3 EXCEPT !.ret = tasklet]

NoCallBack == [f |-> "undef"]
Noop == [k |-> "noop"]

(* What then does when it is given onfulfilled: this.or(...).and(...)       *)
(* .errors(...).results(...), each call on what the call before returned:   *)
(* or returns its tasklet, tasklet + 1, and returns its own, tasklet + 2,   *)
(* and errors returns the tasklet it is called on.                          *)
ThenSubscribes(s, p, tasklet, onfulfilled, onrejected) ==
    Results(
        Errors(
            And(Or(s, p, [c |-> "thenRej", target |-> tasklet,
                          on |-> onrejected], DefaultTimeout),
                tasklet + 1,
                [c |-> "thenFul", target |-> tasklet, on |-> onfulfilled],
                DefaultTimeout),
            tasklet + 2, Noop),
        tasklet + 2, Noop)

ThenAlwaysSubscribes(s, p, onfulfilled, onrejected) ==
    LET tasklet == Fresh(s)
    IN [ThenSubscribes(Construct(s, 0), p, tasklet, onfulfilled, onrejected)
           EXCEPT !.ret = tasklet]

(* then(onfulfilled, onrejected): the derived tasklet is Fresh(s), the      *)
(* tasklet of or is Fresh(s) + 1 and the tasklet of and is Fresh(s) + 2.    *)
Then(s, p, onfulfilled, onrejected) ==
    LET tasklet == Fresh(s)
        s1 == Construct(s, 0)
    IN [(IF onfulfilled = NoCallBack
         THEN Rejected(s1, tasklet, NoOnfulfilled, TRUE)
         ELSE ThenSubscribes(s1, p, tasklet, onfulfilled, onrejected))
           EXCEPT !.ret = tasklet]

(* catch(onrejected) *)
Catch(s, p, onrejected) == Then(s, p, NoCallBack, onrejected)

(* the body of the job of gather: for (const key in tasklets) { ... } *)
RECURSIVE GatherLoop(_, _, _)
GatherLoop(s, g, key) ==
    IF key > Len(s.gathers[g].tasklets) THEN s
    ELSE LET s1 == Then(s, s.gathers[g].tasklets[key],
                        [f |-> "gatherFul", g |-> g, key |-> key],
                        [f |-> "gatherRej", g |-> g])
         IN GatherLoop([s1 EXCEPT !.gathers[g].size = @ + 1], g, key + 1)

SettledAlwaysFulfils(r, target, wrapped) ==
    Fulfilled(r.s, target, r.out, TRUE)

(* what the continuation of then does with what the user callback gave *)
Settled(r, target, wrapped) ==
    IF r.threw THEN Rejected(r.s, target, wrapped, TRUE)
    ELSE IF IsPromiseLikeShape(r.out)
         THEN Contracted(r.s, target, [j |-> "promise"])
         ELSE Fulfilled(r.s, target, r.out, TRUE)

(* ------------------------------------------------------------------------ *)
(* Producer adapter. A contract is a foreign promise ("promise") or a job:   *)
(* "sync" settles with val before it returns, "async" returns a handle      *)
(* (work) and settles later, "throw" throws; "thenFul" and "thenRej" are    *)
(* the jobs then builds.                                                    *)
(* ------------------------------------------------------------------------ *)
Contracted(s, u, contract) ==
    LET first == s.units[u].outcome = Uninitialized
        s1 == Initialise(s, u)
        s2 == IF first
              THEN [s1 EXCEPT !.units[u].isPromise = (contract.j = "promise")]
              ELSE s1
    IN CASE contract.j = "promise" ->
              [s2 EXCEPT !.units[u].producers = @ \cup {TRUE}]
         [] contract.j = "sync" -> Done(s2, u, contract.val)
         [] contract.j = "async" ->
              [s2 EXCEPT !.units[u].producers = @ \cup {FALSE},
                         !.units[u].work = IF first THEN contract.work ELSE @]
         [] contract.j = "throw" -> Rejected(s2, u, WorkError(Boom), FALSE)
         [] contract.j = "thenFul" ->
              Done(Settled(CallBack(s2, contract.on, contract.val),
                           contract.target,
                           FulfillmentError(contract.val, Boom)),
                   u, contract.val)
         [] contract.j = "thenRej" ->
              Done(IF contract.on = NoCallBack
                   THEN Rejected(s2, contract.target, contract.val, TRUE)
                   ELSE Settled(CallBack(s2, contract.on, contract.val),
                                contract.target,
                                RejectionError(contract.val, Boom)),
                   u, contract.val)

Make(s, contract, timeout) == Contracted(Construct(s, timeout), Fresh(s), contract)

(* gather(tasklets, options): new Tasklet(options).contracted(job), where    *)
(* the job is not a promise, returns no handle and does not throw; the      *)
(* aggregate tasklet is Fresh(s).                                           *)
Gather(s, tasklets, timeout) ==
    LET g == Fresh(s)
        s1 == Initialise(Construct(s, timeout), g)
    IN GatherLoop(
           [s1 EXCEPT !.gathers =
               [a \in (DOMAIN s1.gathers) \cup {g} |->
                   IF a = g
                   THEN [tasklets |-> tasklets, result |-> <<>>,
                         size |-> 0, resolutions |-> 0]
                   ELSE s1.gathers[a]]],
           g, 1)

TimerNoCatch(s, u) ==
    LET w == s.units[u].work
        s1 == IF w = "none" THEN s
              ELSE [s EXCEPT !.units[u].cancelCalls = @ + 1]
    IN IF w = "cancelThrows" THEN s1
       ELSE Rejected(s1, u, TimeoutError, s.units[u].isPromise)

(* the callback contracted hands to setTimeout *)
Timer(s, u) ==
    LET w == s.units[u].work
        s1 == IF w = "none" THEN s
              ELSE [s EXCEPT !.units[u].cancelCalls = @ + 1]
        s2 == IF w = "cancelThrows"
              THEN Report(s1, "error", CancellationError(Boom))
              ELSE s1
    IN Rejected(s2, u, TimeoutError, s.units[u].isPromise)

(* ------------------------------------------------------------------------ *)
(* The program: blocks of user code, then the nextTick queue, then timers   *)
(* ------------------------------------------------------------------------ *)
Timeouts == {0, DefaultTimeout}
Works == {"none", "cancel", "cancelThrows"}
(* the n-th operation of a producer delivers the result V(n) or the error E(n) *)
Values == {V(used.ops + 1), E(used.ops + 1)}
Contracts ==
    {[j |-> "promise"], [j |-> "throw"], [j |-> "sync", val |-> V(5)],
     [j |-> "sync", val |-> E(0)]}
    \cup {[j |-> "async", work |-> w] : w \in Works}
(* the contracts tried on a tasklet that already has one *)
SecondContracts == {[j |-> "sync", val |-> V(5)], [j |-> "async", work |-> "none"]}
(* the contracts of the first tasklet of a chain and of the children of gather *)
ChildContracts ==
    {[j |-> "sync", val |-> V(5)], [j |-> "sync", val |-> E(0)],
     [j |-> "async", work |-> "none"]}
AndContinuations == {[c |-> "double"], [c |-> "throw"], [c |-> "pend"]}
OrContinuations == {[c |-> "forward"], [c |-> "throw"], [c |-> "pend"]}
(* the callbacks of an await: they return undefined *)
Onfulfilled(t) == [f |-> "fn", id |-> <<"onfulfilled", t>>, ret |-> "undefined"]
Onrejected(t) == [f |-> "fn", id |-> <<"onrejected", t>>, ret |-> "undefined"]

Init ==
    /\ units = <<>>
    /\ queue = <<>>
    /\ log = <<>>
    /\ diag = <<>>
    /\ gathers = <<>>
    /\ running = FALSE
    /\ used = [ops |-> 0, subs |-> 0, calls |-> 0, awaited |-> FALSE,
               caught |-> <<>>]

(* User code runs in the current block, or starts one when nothing is       *)
(* queued. running says that the current block has queued callbacks and has *)
(* not returned yet: a block that queued nothing leaves no trace.           *)
CanRun == running \/ queue = <<>>

(* a step of user code that leaves the heap s *)
User(s) ==
    /\ CanRun
    /\ Commit(s)
    /\ running' = (s.queue # <<>>)

Op == used' = [used EXCEPT !.ops = @ + 1]
CallOp == used' = [used EXCEPT !.calls = @ + 1]

(* new Tasklet(options) *)
New ==
    \E timeout \in Timeouts :
        /\ units = <<>>
        /\ User(Construct(Cur, timeout))
        /\ UNCHANGED used

(* tasklet.contracted(contract) *)
Contract ==
    \E u \in DOMAIN units, contract \in Contracts :
        /\ \/ units[u].outcome = Uninitialized /\ UNCHANGED used
           \/ /\ units[u].outcome # Uninitialized
              /\ used.ops < MaxOps
              /\ contract \in SecondContracts
              /\ Op
        /\ User(Contracted(Cur, u, contract))

(* make(contract), the first tasklet of a chain *)
MakeRoot ==
    \E contract \in ChildContracts :
        /\ units = <<>>
        /\ User(Make(Cur, contract, DefaultTimeout))
        /\ UNCHANGED used

(* make(contract), a child for gather *)
MakeChild ==
    \E contract \in ChildContracts :
        /\ Len(units) < MaxKeys
        /\ gathers = <<>>
        /\ User(Make(Cur, contract, 0))
        /\ UNCHANGED used

(* the producer of a job calls done(value) or reject(error), any number of times *)
JobSettles ==
    \E u \in DOMAIN units, value \in Values :
        /\ FALSE \in units[u].producers
        /\ used.ops < MaxOps
        /\ User(Done(Cur, u, value))
        /\ Op

(* a foreign promise settles, once: its reaction runs between blocks *)
PromiseSettles ==
    \E u \in DOMAIN units, value \in Values :
        /\ queue = <<>>
        /\ TRUE \in units[u].producers
        /\ used.ops < MaxOps
        /\ LET s == [Cur EXCEPT !.units[u].producers = @ \ {TRUE}]
           IN Commit(IF IsError(value) THEN Rejected(s, u, value, TRUE)
                     ELSE Fulfilled(s, u, value, TRUE))
        /\ running' = FALSE
        /\ Op

(* the timer of a tasklet expires *)
TimerFires ==
    \E u \in DOMAIN units :
        /\ queue = <<>>
        /\ units[u].timer
        /\ Commit(Timer(Cur, u))
        /\ UNCHANGED <<running, used>>

(* the block of user code returns *)
Return ==
    /\ running
    /\ running' = FALSE
    /\ UNCHANGED <<units, queue, log, diag, gathers, used>>

(* the next callback of the process.nextTick queue runs *)
Tick ==
    /\ ~running /\ queue # <<>>
    /\ LET n == Head(queue)
           s == [Cur EXCEPT !.queue = Tail(@)]
       IN Commit(IF n.chan = "err" THEN RejectedTick(s, n)
                 ELSE FulfilledTick(s, n))
    /\ UNCHANGED <<running, used>>

SubOp == used' = [used EXCEPT !.subs = @ + 1]

Probe(throws) == [k |-> "probe", id |-> <<"sub", used.subs + 1>>, throws |-> throws]

(* tasklet.errors(handler) *)
SubscribeErrors ==
    \E u \in DOMAIN units, throws \in BOOLEAN :
        /\ used.subs < MaxSubs
        /\ User(Errors(Cur, u, Probe(throws)))
        /\ SubOp

(* tasklet.results(handler) *)
SubscribeResults ==
    \E u \in DOMAIN units, throws \in BOOLEAN :
        /\ used.subs < MaxSubs
        /\ User(Results(Cur, u, Probe(throws)))
        /\ SubOp

(* tasklet.errors(handler) or tasklet.results(handler), on any tasklet *)
Listen ==
    \E u \in DOMAIN units, throws \in BOOLEAN :
        /\ used.subs < MaxHandlers
        /\ \/ User(Errors(Cur, u, Probe(throws)))
           \/ User(Results(Cur, u, Probe(throws)))
        /\ SubOp

(* tasklet.and(continuation), counted with the subscribers: and subscribes *)
(* to the tasklet it is called on                                          *)
ListenAnd ==
    \E p \in DOMAIN units, cont \in AndContinuations :
        /\ used.subs < MaxHandlers
        /\ User(And(Cur, p, cont, DefaultTimeout))
        /\ SubOp

(* tasklet.and(continuation) *)
CallAnd ==
    \E p \in DOMAIN units, cont \in AndContinuations :
        /\ used.calls < MaxCalls
        /\ User(And(Cur, p, cont, DefaultTimeout))
        /\ CallOp

(* tasklet.or(continuation) *)
CallOr ==
    \E p \in DOMAIN units, cont \in OrContinuations :
        /\ used.calls < MaxCalls
        /\ User(Or(Cur, p, cont, DefaultTimeout))
        /\ CallOp

(* the one await of the program: await tasklet *)
Await ==
    \E p \in DOMAIN units :
        /\ ~used.awaited
        /\ User(Then(Cur, p, Onfulfilled(Fresh(Cur)), Onrejected(Fresh(Cur))))
        /\ used' = [used EXCEPT !.awaited = TRUE]

(* the one call of then of the program: tasklet.then(f, g), tasklet.then(f), *)
(* tasklet.catch(g), tasklet.then()                                         *)
CallThen ==
    \E p \in DOMAIN units,
       onfulfilled \in {NoCallBack, Onfulfilled(Fresh(Cur))},
       onrejected \in {NoCallBack, Onrejected(Fresh(Cur))} :
        /\ ~used.awaited
        /\ User(Then(Cur, p, onfulfilled, onrejected))
        /\ used' = [used EXCEPT !.awaited = TRUE]

(* what a callback of then does: it returns its argument, throws, or        *)
(* returns a foreign promise                                                *)
Returns == {"same", "throw", "promise"}

(* the one call of then of the program, with both callbacks: tasklet.then(f, g) *)
CallThenBoth ==
    \E p \in DOMAIN units, f \in Returns, g \in Returns :
        /\ ~used.awaited
        /\ User(Then(Cur, p,
                     [f |-> "fn", id |-> <<"onfulfilled", Fresh(Cur)>>, ret |-> f],
                     [f |-> "fn", id |-> <<"onrejected", Fresh(Cur)>>, ret |-> g]))
        /\ used' = [used EXCEPT !.awaited = TRUE]

(* the one call of catch of the program: tasklet.catch(g); caught keeps the  *)
(* tasklet it was called on and the tasklet it returned                     *)
CallCatch ==
    \E p \in DOMAIN units :
        /\ ~used.awaited
        /\ User(Catch(Cur, p, Onrejected(Fresh(Cur))))
        /\ used' = [used EXCEPT !.awaited = TRUE,
                                !.caught = <<p, Fresh(Cur)>>]

(* gather(tasklets, options) over the tasklets made so far *)
CallGather ==
    \E timeout \in Timeouts :
        /\ units # <<>>
        /\ gathers = <<>>
        /\ User(Gather(Cur, [k \in 1..Len(units) |-> k], timeout))
        /\ UNCHANGED used

(* one tasklet, its producer and its subscribers *)
Next ==
    \/ New
    \/ Contract
    \/ JobSettles
    \/ PromiseSettles
    \/ TimerFires
    \/ Return
    \/ Tick
    \/ SubscribeErrors
    \/ SubscribeResults

Spec == Init /\ [][Next]_vars

(* a tasklet and the tasklets derived from it by or / and *)
NextChain ==
    \/ MakeRoot
    \/ CallAnd
    \/ CallOr
    \/ JobSettles
    \/ TimerFires
    \/ Return
    \/ Tick

SpecChain == Init /\ [][NextChain]_vars

(* a tasklet, the tasklets derived from it by and, and one await *)
NextAwait ==
    \/ MakeRoot
    \/ CallAnd
    \/ Await
    \/ JobSettles
    \/ TimerFires
    \/ Return
    \/ Tick

SpecAwait == Init /\ [][NextAwait]_vars

(* a tasklet, contracted or not, and one call of then or catch on it *)
NextThen ==
    \/ New
    \/ MakeRoot
    \/ CallThen
    \/ CallCatch
    \/ JobSettles
    \/ TimerFires
    \/ Return
    \/ Tick

SpecThen == Init /\ [][NextThen]_vars

(* a tasklet, the tasklets derived from it by and, and their subscribers *)
NextNotify ==
    \/ MakeRoot
    \/ ListenAnd
    \/ Listen
    \/ JobSettles
    \/ TimerFires
    \/ Return
    \/ Tick

SpecNotify == Init /\ [][NextNotify]_vars

(* a tasklet and one call of then with both callbacks on it; the promise a  *)
(* callback returned settles later                                          *)
NextThenBoth ==
    \/ MakeRoot
    \/ CallThenBoth
    \/ JobSettles
    \/ PromiseSettles
    \/ TimerFires
    \/ Return
    \/ Tick

SpecThenBoth == Init /\ [][NextThenBoth]_vars

(* gather over tasklets made before it *)
NextGather ==
    \/ MakeChild
    \/ CallGather
    \/ JobSettles
    \/ TimerFires
    \/ Return
    \/ Tick

SpecGather == Init /\ [][NextGather]_vars

(* the same, where the event loop runs every queued callback and every      *)
(* armed timer expires; producers are free never to settle                  *)
SpecGatherFair ==
    SpecGather /\ WF_vars(Tick) /\ WF_vars(Return) /\ WF_vars(TimerFires)

(* ------------------------------------------------------------------------ *)
(* Properties                                                               *)
(* ------------------------------------------------------------------------ *)
Settled_(u) == units[u].outcome \in {Error, Result}

(* C1: once the outcome of a tasklet is Error or Result, no step changes it: *)
(* it never returns to Uninitialized or Pending and never flips between     *)
(* Error and Result.                                                        *)
C1_OutcomeLatched ==
    [][\A u \in DOMAIN units :
          Settled_(u) => units'[u].outcome = units[u].outcome]_vars

(* a tasklet whose outcome is Result and that was rejected after that *)
C1_Witness ==
    \E u \in DOMAIN units :
        /\ units[u].outcome = Result
        /\ units[u].resolvedResults # <<>>
        /\ units[u].resolvedErrors # <<>>

(* the entries a subscriber with this id adds to the log for a history *)
Replayed(id, history) == [i \in 1..Len(history) |-> [h |-> id, val |-> history[i]]]

(* C5: results(h), and errors(h), on a tasklet with history calls h before  *)
(* it returns, once for every entry of resolvedResults (resolvedErrors), in *)
(* the order of the history, and returns the tasklet it was called on.      *)
C5_ReplayOnSubscribe ==
    \A u \in DOMAIN units, throws \in BOOLEAN :
        LET r == Results(Cur, u, Probe(throws))
            e == Errors(Cur, u, Probe(throws))
        IN /\ r.log = log \o Replayed(Probe(throws).id, units[u].resolvedResults)
           /\ r.ret = u
           /\ r.units[u].resultHandlers
                 = Append(units[u].resultHandlers, Probe(throws))
           /\ e.log = log \o Replayed(Probe(throws).id, units[u].resolvedErrors)
           /\ e.ret = u
           /\ e.units[u].errorHandlers
                 = Append(units[u].errorHandlers, Probe(throws))

(* a subscriber registered after two results was called with both, in order, *)
(* while the two notifications are still queued                             *)
C5_Witness ==
    \E u \in DOMAIN units :
        /\ Len(units[u].resolvedResults) = 2
        /\ units[u].resolvedResults[1] # units[u].resolvedResults[2]
        /\ Len(units[u].resultHandlers) = 1
        /\ Len(queue) = 2
        /\ log = Replayed(units[u].resultHandlers[1].id, units[u].resolvedResults)

(* how often TimeoutError is in a history *)
Timeouts_(history) == Cardinality({i \in 1..Len(history) : history[i] = TimeoutError})

(* C9: a timer is armed only on a Pending tasklet that nothing has settled; *)
(* when it expires cancel() is called once, if the job returned a handle,   *)
(* and the tasklet is rejected with TimeoutError, its first error, so its   *)
(* outcome is Error, also when cancel() throws; a tasklet settled before    *)
(* the timer expires has no timer, no call of cancel() and no TimeoutError. *)
C9_Timeout ==
    \A u \in DOMAIN units :
        LET t == units[u]
            n == Timeouts_(t.resolvedErrors)
        IN /\ n <= 1
           /\ t.cancelCalls = IF t.work = "none" THEN 0 ELSE n
           /\ n = 1 => t.outcome = Error /\ t.resolvedErrors[1] = TimeoutError
           /\ t.timer => /\ t.outcome = Pending
                         /\ t.resolvedErrors = <<>> /\ t.resolvedResults = <<>>
           /\ (Settled_(u) /\ (t.outcome = Result \/ t.resolvedErrors[1] # TimeoutError))
                 => ~t.timer /\ t.cancelCalls = 0 /\ n = 0

(* the timer expired on a tasklet whose cancel() throws: cancel() was called *)
(* once, the throw was reported, the tasklet is rejected with TimeoutError  *)
C9_Witness ==
    \E u \in DOMAIN units :
        /\ units[u].work = "cancelThrows"
        /\ units[u].cancelCalls = 1
        /\ units[u].outcome = Error
        /\ units[u].resolvedErrors[1] = TimeoutError
        /\ <<"error", CancellationError(Boom)>> \in DOMAIN diag

(* the children of the aggregate tasklet g, and the keys of gather *)
Children(g) == gathers[g].tasklets
Keys(g) == DOMAIN gathers[g].tasklets

(* C2: the aggregate tasklet of gather has no result before every child has *)
(* one, and when it has a result every key is in the aggregate object.      *)
C2_GatherWaitsForAll ==
    \A g \in DOMAIN gathers :
        units[g].resolvedResults # <<>> =>
            \A k \in Keys(g) :
                /\ units[Children(g)[k]].resolvedResults # <<>>
                /\ k \in DOMAIN gathers[g].result

(* C3: when every child of a gather without timeout has outcome Result, the *)
(* aggregate tasklet eventually has a result.                               *)
C3_GatherFulfils ==
    (\E g \in DOMAIN gathers :
        /\ units[g].timeout = 0
        /\ \A k \in Keys(g) : units[Children(g)[k]].outcome = Result)
    ~> (\E g \in DOMAIN gathers : units[g].resolvedResults # <<>>)

(* C4: when one child of a gather without timeout has outcome Error, no     *)
(* other child has an error and every queued callback has run, the outcome  *)
(* of the aggregate tasklet is Error and its first error is the first error *)
(* of that child.                                                           *)
C4_GatherRejects ==
    \A g \in DOMAIN gathers : \A k \in Keys(g) :
        (/\ units[g].timeout = 0
         /\ queue = <<>>
         /\ units[Children(g)[k]].outcome = Error
         /\ \A j \in Keys(g) \ {k} : units[Children(g)[j]].resolvedErrors = <<>>)
        => /\ units[g].outcome = Error
           /\ units[g].resolvedErrors[1] = units[Children(g)[k]].resolvedErrors[1]

(* what the onfulfilled callback of the then whose tasklet is t was called with *)
Yielded(t) == SelectSeq(log, LAMBDA e : e.h = <<"onfulfilled", t>>)

(* every await of p has yielded val, once *)
AwaitYields(p, val) ==
    \A i \in DOMAIN units[p].errorHandlers :
        LET a == units[p].errorHandlers[i]
        IN (a.k = "orErr" /\ a.cont.c = "thenRej") =>
               Yielded(a.cont.target)
                   = <<[h |-> <<"onfulfilled", a.cont.target>>, val |-> val]>>

(* C6: for a tasklet derived by and from a parent whose outcome is Result,  *)
(* once every queued callback has run: the continuation was called once,    *)
(* with the first result r of the parent; with x => then => then(x * 2) the *)
(* derived tasklet has outcome Result and the one result r * 2 and no       *)
(* error, and an await of it yields r * 2; when the continuation throws the *)
(* derived tasklet is rejected with the FulfillmentError of r; when it      *)
(* returns a job that settles later the job is the contract of the derived  *)
(* tasklet.                                                                 *)
C6_AndContinues ==
    \A p \in DOMAIN units : \A i \in DOMAIN units[p].resultHandlers :
        LET h == units[p].resultHandlers[i]
        IN (h.k = "andRes" /\ units[p].outcome = Result /\ queue = <<>>) =>
               LET r == units[p].resolvedResults[1]
                   c == units[h.child]
               IN /\ c.contCalls = 1
                  /\ h.cont.c = "double" =>
                        /\ c.outcome = Result
                        /\ c.resolvedResults = <<Double(r)>>
                        /\ c.resolvedErrors = <<>>
                        /\ AwaitYields(h.child, Double(r))
                  /\ h.cont.c = "throw" =>
                        /\ c.outcome = Error
                        /\ c.resolvedErrors = <<FulfillmentError(r, Boom)>>
                  /\ h.cont.c = "pend" =>
                        /\ c.outcome # Uninitialized
                        /\ c.producers = {FALSE}

(* the parent has the result 5, the tasklet derived with x * 2 has the      *)
(* result 10, and an await of the derived tasklet has yielded 10            *)
C6_Witness ==
    \E p \in DOMAIN units : \E i \in DOMAIN units[p].resultHandlers :
        LET h == units[p].resultHandlers[i]
        IN /\ h.k = "andRes" /\ h.cont.c = "double"
           /\ queue = <<>>
           /\ units[p].resolvedResults = <<V(5)>>
           /\ units[h.child].resolvedResults = <<V(10)>>
           /\ \E j \in DOMAIN units[h.child].errorHandlers :
                 LET a == units[h.child].errorHandlers[j]
                 IN /\ a.k = "orErr" /\ a.cont.c = "thenRej"
                    /\ Yielded(a.cont.target)
                          = <<[h |-> <<"onfulfilled", a.cont.target>>,
                               val |-> V(10)]>>

(* C7: for a tasklet derived by and: the continuation is called at most     *)
(* once; when the outcome of the parent is Error it is never called, the    *)
(* derived tasklet has no result and at most one error, the first error of  *)
(* the parent, and has that error once every queued callback has run.       *)
C7_AndGuarded ==
    \A p \in DOMAIN units : \A i \in DOMAIN units[p].resultHandlers :
        LET h == units[p].resultHandlers[i]
        IN h.k = "andRes" =>
               LET c == units[h.child]
               IN /\ c.contCalls <= 1
                  /\ units[p].outcome = Error =>
                        /\ c.contCalls = 0
                        /\ c.resolvedResults = <<>>
                        /\ c.resolvedErrors \in {<<>>, <<units[p].resolvedErrors[1]>>}
                        /\ queue = <<>> => /\ c.resolvedErrors # <<>>
                                           /\ c.outcome = Error

(* the parent timed out and its producer delivered a result after that; the *)
(* tasklet derived by and has the TimeoutError and its continuation was not *)
(* called                                                                   *)
C7_Witness ==
    \E p \in DOMAIN units : \E i \in DOMAIN units[p].resultHandlers :
        LET h == units[p].resultHandlers[i]
        IN /\ h.k = "andRes"
           /\ queue = <<>>
           /\ units[p].outcome = Error
           /\ units[p].resolvedErrors = <<TimeoutError>>
           /\ units[p].resolvedResults # <<>>
           /\ units[h.child].resolvedErrors = <<TimeoutError>>
           /\ units[h.child].contCalls = 0

(* C8: for a tasklet derived by or: the continuation is called at most      *)
(* once; when the outcome of the parent is Error, with first error e, and   *)
(* every queued callback has run, it was called once and the job it gave is *)
(* the contract of the derived tasklet: with e => otherwise => otherwise(e) *)
(* the derived tasklet has outcome Error and the one error e, and when the  *)
(* continuation throws it has the RejectionError of e; when the outcome of  *)
(* the parent is Result the continuation is never called and the derived    *)
(* tasklet has no error and at most one result, the first result of the     *)
(* parent, and has it once every queued callback has run.                   *)
C8_OrRecovers ==
    \A p \in DOMAIN units : \A i \in DOMAIN units[p].errorHandlers :
        LET h == units[p].errorHandlers[i]
        IN h.k = "orErr" =>
               LET c == units[h.child]
               IN /\ c.contCalls <= 1
                  /\ (units[p].outcome = Error /\ queue = <<>>) =>
                        /\ c.contCalls = 1
                        /\ c.outcome # Uninitialized
                        /\ h.cont.c = "forward" =>
                              /\ c.outcome = Error
                              /\ c.resolvedErrors = <<units[p].resolvedErrors[1]>>
                              /\ c.resolvedResults = <<>>
                        /\ h.cont.c = "throw" =>
                              /\ c.outcome = Error
                              /\ c.resolvedErrors =
                                    <<RejectionError(units[p].resolvedErrors[1], Boom)>>
                        /\ h.cont.c = "pend" => c.producers = {FALSE}
                  /\ units[p].outcome = Result =>
                        /\ c.contCalls = 0
                        /\ c.resolvedErrors = <<>>
                        /\ c.resolvedResults \in {<<>>, <<units[p].resolvedResults[1]>>}
                        /\ queue = <<>> => /\ c.resolvedResults # <<>>
                                           /\ c.outcome = Result

(* the parent was rejected with E(1) and then with E(2); the continuation   *)
(* e => otherwise => otherwise(e) was called once and the derived tasklet   *)
(* has the one error E(1)                                                   *)
C8_Witness ==
    \E p \in DOMAIN units : \E i \in DOMAIN units[p].errorHandlers :
        LET h == units[p].errorHandlers[i]
        IN /\ h.k = "orErr" /\ h.cont.c = "forward"
           /\ queue = <<>>
           /\ units[p].resolvedErrors = <<E(1), E(2)>>
           /\ units[h.child].contCalls = 1
           /\ units[h.child].outcome = Error
           /\ units[h.child].resolvedErrors = <<E(1)>>

(* C10: on every tasklet p, whatever its state, then without onfulfilled,   *)
(* with or without onrejected, returns a new tasklet whose outcome is Error *)
(* and whose one error is 'An onfulfilled handler must be supplied.'; it    *)
(* leaves p and every other tasklet as they were, calls no callback and     *)
(* queues the one notification of that error.                               *)
C10_ThenWithoutOnfulfilled ==
    \A p \in DOMAIN units :
        \A onrejected \in {NoCallBack, Onrejected(Fresh(Cur))} :
            LET r == Then(Cur, p, NoCallBack, onrejected)
                t == Len(units) + 1
            IN /\ r.ret = t
               /\ Len(r.units) = t
               /\ r.units[t].outcome = Error
               /\ r.units[t].resolvedErrors = <<NoOnfulfilled>>
               /\ r.units[t].resolvedResults = <<>>
               /\ \A u \in DOMAIN units : r.units[u] = units[u]
               /\ r.log = log
               /\ r.diag = diag
               /\ r.queue = Append(queue, [unit |-> t, chan |-> "err",
                                           val |-> NoOnfulfilled,
                                           isPromise |-> TRUE])

(* then without onfulfilled was called on a tasklet that has a result: the  *)
(* new tasklet is rejected and the tasklet it was called on has no subscriber *)
C10_Witness ==
    \E p \in DOMAIN units : \E t \in DOMAIN units :
        /\ units[p].outcome = Result
        /\ units[p].errorHandlers = <<>> /\ units[p].resultHandlers = <<>>
        /\ units[t].outcome = Error
        /\ units[t].resolvedErrors = <<NoOnfulfilled>>
        /\ used.awaited

(* what the onrejected callback of the then whose tasklet is t was called with *)
Recovered(t) == SelectSeq(log, LAMBDA e : e.h = <<"onrejected", t>>)

(* C11: for the tasklet t that catch(g) returned on the tasklet p, once     *)
(* every queued callback has run: when the outcome of p is Error, g was     *)
(* called once, with the first error of p, and t has outcome Result and the *)
(* one result that g returned; when the outcome of p is Result, t has       *)
(* outcome Result and the one result that is the first result of p.         *)
C11_CatchRecovers ==
    (used.caught # <<>> /\ queue = <<>>) =>
        LET p == used.caught[1]
            t == used.caught[2]
        IN /\ units[p].outcome = Error =>
                 /\ Recovered(t) = <<[h |-> <<"onrejected", t>>,
                                      val |-> units[p].resolvedErrors[1]]>>
                 /\ units[t].outcome = Result
                 /\ units[t].resolvedResults = <<Undefined>>
           /\ units[p].outcome = Result =>
                 /\ units[t].outcome = Result
                 /\ units[t].resolvedResults = <<units[p].resolvedResults[1]>>

(* the next step runs the first callback of the process.nextTick queue *)
TickStep == ~running /\ queue # <<>>

(* the subscribers the notification n is for, when it runs *)
Listeners(n) ==
    IF n.chan = "err" THEN units[n.unit].errorHandlers
    ELSE units[n.unit].resultHandlers

(* how often the entry e is in the sequence seq *)
Count(seq, e) == Cardinality({i \in DOMAIN seq : seq[i] = e})

(* how often a throw of a subscriber called with the event of n was reported *)
Thrown(d, n) ==
    LET m == <<"error", IF n.chan = "err" THEN RejectionError(n.val, Boom)
                        ELSE FulfillmentError(n.val, Boom)>>
    IN IF m \in DOMAIN d THEN d[m] ELSE 0

(* the outcome and the histories of the tasklet u are the same after the step *)
SameHistory(u) ==
    /\ units'[u].outcome = units[u].outcome
    /\ units'[u].resolvedErrors = units[u].resolvedErrors
    /\ units'[u].resolvedResults = units[u].resolvedResults

(* C12: a notification calls every user subscriber of its channel once more *)
(* with its event, whether or not subscribers before it throw; every throw  *)
(* is reported and the outcome and the histories of the tasklet stay as     *)
(* they were; a step that registers a subscriber, and replays the history   *)
(* to it, leaves the outcome and the histories of every tasklet as they     *)
(* were, also when the subscriber throws.                                   *)
C12_ThrowIsolated ==
    [][/\ TickStep =>
             LET n == Head(queue)
                 H == Listeners(n)
             IN /\ \A i \in DOMAIN H :
                       H[i].k = "probe" =>
                           Count(log', [h |-> H[i].id, val |-> n.val])
                               = Count(log, [h |-> H[i].id, val |-> n.val]) + 1
                /\ Thrown(diag', n) = Thrown(diag, n)
                       + Cardinality({i \in DOMAIN H :
                                         H[i].k = "probe" /\ H[i].throws})
                /\ SameHistory(n.unit)
       /\ used'.subs # used.subs => \A u \in DOMAIN units : SameHistory(u)]_vars

(* two subscribers of one tasklet, the first of which throws, were both     *)
(* called with the first result and then both with the second               *)
C12_Witness ==
    \E u \in DOMAIN units :
        LET H == units[u].resultHandlers
            r == units[u].resolvedResults
        IN /\ Len(H) = 2 /\ Len(r) = 2
           /\ H[1].k = "probe" /\ H[1].throws
           /\ H[2].k = "probe"
           /\ queue = <<>>
           /\ log = <<[h |-> H[1].id, val |-> r[1]], [h |-> H[2].id, val |-> r[1]],
                      [h |-> H[1].id, val |-> r[2]], [h |-> H[2].id, val |-> r[2]]>>
           /\ Thrown(diag, [chan |-> "res", val |-> r[1]]) = 1

(* C13: on every tasklet u that has a contract, contracted with any         *)
(* contract appends 'This tasklet already has a contract defined' to the    *)
(* errors of u, before anything the new contract appends, and queues its    *)
(* notification; the outcome of u becomes Error when it was Pending and     *)
(* stays what it was otherwise; u has no timer when contracted returns.     *)
C13_SecondContractRejects ==
    \A u \in DOMAIN units : \A contract \in Contracts :
        units[u].outcome # Uninitialized =>
            LET r == Contracted(Cur, u, contract)
                n == Len(units[u].resolvedErrors)
            IN /\ Len(r.units[u].resolvedErrors) > n
               /\ SubSeq(r.units[u].resolvedErrors, 1, n + 1)
                     = Append(units[u].resolvedErrors, AlreadyContracted)
               /\ r.units[u].outcome = IF units[u].outcome = Pending THEN Error
                                       ELSE units[u].outcome
               /\ ~r.units[u].timer
               /\ Len(r.queue) > Len(queue)
               /\ r.queue[Len(queue) + 1]
                     = [unit |-> u, chan |-> "err", val |-> AlreadyContracted,
                        isPromise |-> FALSE]

(* a tasklet with a timeout was given a second contract while it was        *)
(* Pending: that error is its first, its outcome is Error, its timer is     *)
(* cleared, and the second contract has delivered a result                  *)
C13_Witness ==
    \E u \in DOMAIN units :
        /\ units[u].timeout # 0
        /\ units[u].outcome = Error
        /\ units[u].resolvedErrors = <<AlreadyContracted>>
        /\ units[u].resolvedResults = <<V(5)>>
        /\ ~units[u].timer

(* seq is what longer starts with *)
Prefix(seq, longer) ==
    /\ Len(seq) <= Len(longer)
    /\ SubSeq(longer, 1, Len(seq)) = seq

(* C14: no step removes or reorders an entry of a history; every operation  *)
(* of a producer appends to a history; and on a tasklet that is settled,    *)
(* done(value) and reject(error) change nothing but the matching history,   *)
(* to which they append the value, and the nextTick queue, to which they    *)
(* append the notification of that value: the outcome stays as it was.      *)
C14_LateSettlements ==
    [][/\ \A u \in DOMAIN units :
             /\ Prefix(units[u].resolvedErrors, units'[u].resolvedErrors)
             /\ Prefix(units[u].resolvedResults, units'[u].resolvedResults)
       /\ used'.ops # used.ops =>
             \E u \in DOMAIN units :
                 Len(units'[u].resolvedErrors) + Len(units'[u].resolvedResults)
                     > Len(units[u].resolvedErrors) + Len(units[u].resolvedResults)
       /\ \A u \in DOMAIN units : \A n \in 1..2 :
             Settled_(u) =>
                 /\ Done(Cur, u, V(n))
                       = [Cur EXCEPT !.units[u].resolvedResults = Append(@, V(n)),
                                     !.queue = Append(@, [unit |-> u, chan |-> "res",
                                                          val |-> V(n),
                                                          isPromise |-> FALSE])]
                 /\ Done(Cur, u, E(n))
                       = [Cur EXCEPT !.units[u].resolvedErrors = Append(@, E(n)),
                                     !.queue = Append(@, [unit |-> u, chan |-> "err",
                                                          val |-> E(n),
                                                          isPromise |-> FALSE])]]_vars

(* a tasklet that timed out and whose producer then delivered a result: the *)
(* result is in its history, its subscriber was notified of it, and its     *)
(* outcome is Error                                                         *)
C14_Witness ==
    \E u \in DOMAIN units :
        /\ units[u].outcome = Error
        /\ units[u].resolvedErrors = <<TimeoutError>>
        /\ units[u].resolvedResults = <<V(1)>>
        /\ Len(units[u].resultHandlers) = 1
        /\ queue = <<>>
        /\ log = <<[h |-> units[u].resultHandlers[1].id, val |-> V(1)]>>

(* how often console.warn was called with the error *)
Warned(d, error) == IF <<"warn", error>> \in DOMAIN d THEN d[<<"warn", error>>] ELSE 0

(* the errors console.warn was called with *)
WarnedErrors(d) == {m[2] : m \in {k \in DOMAIN d : k[1] = "warn"}}

Calls(l, id) == Cardinality({i \in DOMAIN l : l[i].h = id})

(* the tasklet u was rejected or fulfilled in the step: a history is longer *)
Recorded(u) ==
    \/ Len(units'[u].resolvedErrors) > Len(units[u].resolvedErrors)
    \/ Len(units'[u].resolvedResults) > Len(units[u].resolvedResults)

(* no subscriber in handlers was called in the step: a user subscriber has  *)
(* no new entry in the log, the tasklet of a subscriber of and is untouched *)
NotCalled(handlers) ==
    \A i \in DOMAIN handlers :
        /\ handlers[i].k = "probe" =>
              Calls(log', handlers[i].id) = Calls(log, handlers[i].id)
        /\ handlers[i].k \in {"andErr", "andRes"} =>
              units'[handlers[i].child] = units[handlers[i].child]

(* the entries the user subscribers in handlers add to the log for val, in  *)
(* the order of handlers                                                    *)
RECURSIVE Notified(_, _)
Notified(handlers, val) ==
    IF handlers = <<>> THEN <<>>
    ELSE (IF Head(handlers).k = "probe"
          THEN <<[h |-> Head(handlers).id, val |-> val]>>
          ELSE <<>>) \o Notified(Tail(handlers), val)

(* C16: a step in which a tasklet is rejected or fulfilled, by its producer *)
(* or from inside a subscriber of another tasklet, calls none of the        *)
(* subscribers that tasklet has and leaves the notification of the event in *)
(* the nextTick queue; a notification calls the subscribers the tasklet has *)
(* when it runs, in the order they were registered, and only a notification *)
(* or a registration calls a user subscriber.                               *)
C16_NotifiedLater ==
    [][/\ \A u \in DOMAIN units :
             Recorded(u) =>
                 /\ NotCalled(units[u].errorHandlers)
                 /\ NotCalled(units[u].resultHandlers)
                 /\ \E i \in DOMAIN queue' :
                       /\ queue'[i].unit = u
                       /\ i >= Len(queue) + (IF TickStep THEN 0 ELSE 1)
       /\ TickStep => log' = log \o Notified(Listeners(Head(queue)),
                                             Head(queue).val)
       /\ (~TickStep /\ used'.subs = used.subs) => log' = log]_vars

(* a tasklet derived by and was fulfilled from inside the subscriber and    *)
(* has on its parent, and its own subscriber was called once, later         *)
C16_Witness ==
    \E p \in DOMAIN units : \E i \in DOMAIN units[p].resultHandlers :
        LET h == units[p].resultHandlers[i]
        IN /\ h.k = "andRes" /\ h.cont.c = "double"
           /\ units[p].resolvedResults = <<V(1)>>
           /\ units[h.child].resolvedResults = <<V(2)>>
           /\ Len(units[h.child].resultHandlers) = 1
           /\ units[h.child].resultHandlers[1].k = "probe"
           /\ queue = <<>>
           /\ log = <<[h |-> units[h.child].resultHandlers[1].id, val |-> V(2)]>>

(* the user subscriber h of a tasklet with this history was called with     *)
(* each value at most as often as the value is in the history, and as often *)
(* when all is true                                                         *)
OncePerEvent(h, history, all) ==
    h.k = "probe" =>
        /\ \A k \in DOMAIN log :
              log[k].h = h.id => Count(log, log[k]) <= Count(history, log[k].val)
        /\ all => \A k \in DOMAIN history :
                      Count(log, [h |-> h.id, val |-> history[k]])
                          = Count(history, history[k])

(* C17: every subscriber of a tasklet was called at most once for each      *)
(* entry of the history of its channel, and exactly once when every queued  *)
(* notification has run.                                                    *)
C17_ExactlyOnce ==
    \A u \in DOMAIN units :
        /\ \A i \in DOMAIN units[u].errorHandlers :
              OncePerEvent(units[u].errorHandlers[i], units[u].resolvedErrors,
                           queue = <<>>)
        /\ \A i \in DOMAIN units[u].resultHandlers :
              OncePerEvent(units[u].resultHandlers[i], units[u].resolvedResults,
                           queue = <<>>)

(* C18: a tasklet has a timer only while its outcome is Pending and its     *)
(* timeout is not 0; setTimeout is called at most once for a tasklet, and   *)
(* never for one whose timeout is 0; a Pending tasklet whose timeout is not *)
(* 0 has its timer; a settled tasklet has none.                             *)
C18_OneTimerWhilePending ==
    \A u \in DOMAIN units :
        LET t == units[u]
        IN /\ t.timer => (t.outcome = Pending /\ t.timeout # 0 /\ t.timers = 1)
           /\ t.timers <= 1
           /\ t.timeout = 0 => t.timers = 0
           /\ (t.outcome = Pending /\ t.timeout # 0) => t.timer
           /\ Settled_(u) => ~t.timer
           /\ t.outcome = Uninitialized => t.timers = 0

(* a Pending tasklet with a timer was given a second contract, a job that   *)
(* has not settled: the timer is cleared and no other timer was armed       *)
C18_Witness ==
    \E u \in DOMAIN units :
        /\ units[u].timeout # 0
        /\ units[u].resolvedErrors = <<AlreadyContracted>>
        /\ units[u].resolvedResults = <<>>
        /\ units[u].outcome = Error
        /\ units[u].timers = 1
        /\ ~units[u].timer

(* C19: the aggregate tasklet of a gather without timeout has at most one   *)
(* error, however many children are rejected.                               *)
C19_GatherRejectsOnce ==
    \A g \in DOMAIN gathers :
        units[g].timeout = 0 => Len(units[g].resolvedErrors) <= 1

(* the settlements the tasklet u has received *)
Settlements(u) == Len(units[u].resolvedErrors) + Len(units[u].resolvedResults)

(* the tasklet t was settled as then settles it when the callback on, called *)
(* with val, returns: wrapped is the error for a callback that throws        *)
SettledFrom(t, on, val, wrapped) ==
    /\ Settlements(t) <= 1
    /\ on.ret = "same" =>
          /\ units[t].outcome = Result
          /\ units[t].resolvedResults = <<val>>
    /\ on.ret = "throw" =>
          /\ units[t].outcome = Error
          /\ units[t].resolvedErrors = <<wrapped>>
    /\ on.ret = "promise" =>
          /\ units[t].isPromise
          /\ units[t].outcome # Uninitialized
          /\ (units[t].outcome = Pending) = (TRUE \in units[t].producers)
          /\ (units[t].outcome = Pending) = (Settlements(t) = 0)

(* C20: for every then(onfulfilled, onrejected) on a tasklet p, with t the  *)
(* tasklet it returned: the two callbacks were called at most once          *)
(* together; when the outcome of p is Error onfulfilled was not called and, *)
(* once every queued callback has run, onrejected was called with the first *)
(* error of p; when it is Result onrejected was not called and onfulfilled  *)
(* was called with the first result of p; while p is not settled neither    *)
(* was called and t has no contract. When a callback was called t has one   *)
(* settlement, from what it returned: fulfilled with the value, rejected    *)
(* with the wrapped error, or contracted to the promise, which settles it   *)
(* once. t and the tasklets of or and of and have no timer in any state, so *)
(* none can expire, and t never had one; the tasklets of or and of and have *)
(* a TimeoutError only when it is the first error of p, passed on to them,  *)
(* and t has none.                                                          *)
C20_ThenBoth ==
    \A p \in DOMAIN units : \A i \in DOMAIN units[p].errorHandlers :
        LET a == units[p].errorHandlers[i]
        IN (a.k = "orErr" /\ a.cont.c = "thenRej") =>
               LET t == a.cont.target
                   onrejected == a.cont.on
                   onfulfilled == units[a.child].resultHandlers[1].cont.on
                   onF == Yielded(t)
                   onR == Recovered(t)
               IN /\ Len(onF) + Len(onR) <= 1
                  /\ units[p].outcome = Error =>
                        /\ onF = <<>>
                        /\ queue = <<>> =>
                              onR = <<[h |-> <<"onrejected", t>>,
                                       val |-> units[p].resolvedErrors[1]]>>
                  /\ units[p].outcome = Result =>
                        /\ onR = <<>>
                        /\ queue = <<>> =>
                              onF = <<[h |-> <<"onfulfilled", t>>,
                                       val |-> units[p].resolvedResults[1]]>>
                  /\ units[p].outcome \in {Uninitialized, Pending} =>
                        /\ onF = <<>> /\ onR = <<>>
                        /\ units[t].outcome = Uninitialized
                  /\ onF # <<>> =>
                        SettledFrom(t, onfulfilled, onF[1].val,
                                    FulfillmentError(onF[1].val, Boom))
                  /\ onR # <<>> =>
                        SettledFrom(t, onrejected, onR[1].val,
                                    RejectionError(onR[1].val, Boom))
                  /\ \A u \in {t, a.child, a.child + 1} : ~units[u].timer
                  /\ \A u \in {a.child, a.child + 1} :
                        Timeouts_(units[u].resolvedErrors) > 0 =>
                            /\ units[p].outcome = Error
                            /\ units[p].resolvedErrors[1] = TimeoutError
                            /\ units[u].resolvedErrors = <<TimeoutError>>
                  /\ Timeouts_(units[t].resolvedErrors) = 0
                  /\ units[t].timers = 0

(* the parent timed out and its producer delivered a result after that:     *)
(* onrejected was called with the TimeoutError, onfulfilled was not called, *)
(* and the promise onrejected returned has fulfilled the tasklet of then    *)
C20_Witness ==
    \E p \in DOMAIN units : \E i \in DOMAIN units[p].errorHandlers :
        LET a == units[p].errorHandlers[i]
        IN /\ a.k = "orErr" /\ a.cont.c = "thenRej"
           /\ a.cont.on.ret = "promise"
           /\ queue = <<>>
           /\ units[p].resolvedErrors = <<TimeoutError>>
           /\ units[p].resolvedResults # <<>>
           /\ Recovered(a.cont.target)
                 = <<[h |-> <<"onrejected", a.cont.target>>, val |-> TimeoutError]>>
           /\ Yielded(a.cont.target) = <<>>
           /\ units[a.cont.target].outcome = Result
           /\ Settlements(a.cont.target) = 1

====
